---- MODULE Spec2Model ----
(***************************************************************************)
(* Section progress index of obsidian-simple-progress-bar                  *)
(* (src/sectionProgressBar.ts driven by the handlers of src/main.ts).      *)
(*                                                                         *)
(* A document is the sequence of its lines (the editor text is the lines   *)
(* joined by "\n").  Lines are drawn from a fixed alphabet of literal      *)
(* strings; the regular expressions of the source are modelled by what     *)
(* they match on these literals.  The host (Obsidian) is the environment:  *)
(* it edits the active document, switches the active file, invokes the     *)
(* code block processor, attaches and detaches elements and runs the       *)
(* animation frames.                                                       *)
(*                                                                         *)
(* Specifications: Spec (the two notes, edits, file switches, render       *)
(* callbacks and frames), DocSpec (the sample documents, no edits) and     *)
(* FairDocSpec (DocSpec with fair animation frames), TextSpec (the         *)
(* line-number computations on texts with LF, CR LF and CR terminators)   *)
(* and PctSpec (the bar drawn for given counts).                           *)
(***************************************************************************)
EXTENDS Integers, Sequences, FiniteSets, TLC

VARIABLES
    docs,             \* editor text of every file: [Paths -> Seq(line)]
    active,           \* view.file.path of the active MarkdownView
    embeddedBars,     \* Map<string, ProgressBarInfo[]> in insertion order
    currentFilePath,  \* SectionProgressBar.currentFilePath
    els,              \* the HTMLElements the host has handed out
    rafQueue,         \* requestAnimationFrame callbacks of the next frame
    running,          \* callbacks of the frame that is being run
    hist,             \* observation of each element (history variable)
    prevActive,       \* the file the view showed before the last switch
    events,           \* number of host events so far
    rawText,          \* a text with its line terminators (TextSpec)
    lineNumbers       \* the marker lines computed for rawText (TextSpec)

vars == <<docs, active, embeddedBars, currentFilePath, els, rafQueue,
          running, hist, prevActive, events, rawText, lineNumbers>>

(***************************************************************************)
(* Bounds of the model                                                     *)
(***************************************************************************)
\* the host events of a behaviour: edits, file switches, render callbacks,
\* attachments and detachments (animation frames are not counted)
MaxHostEvents == 3

\* the lines below the marker block of the generated documents
MaxBelow == 2
\* the largest number of checkboxes of a section whose bar is computed
MaxTotal == 250

(***************************************************************************)
(* Values                                                                  *)
(***************************************************************************)
Paths == {"A.md", "B.md"}
Elements == {"el1", "el2"}
\* the body lines of the marker blocks the user inserts; the second has
\* blanks around it
Labels == {"A", " B "}
\* the body line of a marker block that holds nothing but blanks
BlankLabel == "  "

NoPath == "null"
NoEl == "null"
NoCtx == [sourcePath |-> NoPath, infoLine |-> -1]
NoStamp == -1
NoBlock == "none"

\* A backtick cannot be written in a TLA+ string: an apostrophe stands for
\* each backtick of the fence.
FenceOpen == "'''sp-bar"
FenceClose == "'''"
Heading1 == "# T"
Heading2 == "## H"
Heading3 == "### S"
Unchecked == "- [ ] t"
Checked == "- [x] t"
Blank == ""

\* further lines of the documents that are recomputed as they are read
HeadingLines2 == {Heading2, "## A", "## B", "## Section 1"}
UncheckedLines == {Unchecked, "- [ ]x", "- [ ] Task A", "- [ ] Task C", "- [ ] L"}
CheckedLines == {Checked, "- [x]y", "- [x]z", "- [x] Task B", "- [X] L"}

PlainLines == {Blank}

DefaultLabel == "Progress"
NoTasksText == "No checkboxes in this section"

(***************************************************************************)
(* What the patterns of the source match on a line of the alphabet         *)
(***************************************************************************)
\* firstLine.startsWith(fence + 'sp-bar'), and the opening of the block pattern
StartsWithSpBar(line) == line = FenceOpen

\* the line contains three backticks (the closing fence of the block pattern)
ContainsFence(line) == line \in {FenceOpen, FenceClose}

\* the fallback pattern (fence, sp-bar, blanks, newline; flags gm) on a line
IsFallbackFence(line) == line = FenceOpen

\* line.match(/^(#{1,6})\s+/): the heading depth, 0 when no heading
HeadingLevel(line) ==
    CASE line = Heading1 -> 1
      [] line \in HeadingLines2 -> 2
      [] line = Heading3 -> 3
      [] OTHER -> 0

\* occurrences of /- \[ \]/g and of /- \[[xX]\]/g in a line
UncheckedIn(line) == IF line \in UncheckedLines THEN 1 ELSE 0
CheckedIn(line) == IF line \in CheckedLines THEN 1 ELSE 0

\* String.prototype.trim, trimStart and trimEnd on a line of the alphabet
Trim(s) == IF s = " B " THEN "B" ELSE IF s = BlankLabel THEN "" ELSE s
TrimStart(s) == IF s = " B " THEN "B " ELSE IF s = BlankLabel THEN "" ELSE s
TrimEnd(s) == IF s = " B " THEN " B" ELSE IF s = BlankLabel THEN "" ELSE s

(***************************************************************************)
(* Sequences helpers                                                       *)
(***************************************************************************)
InsertAt(s, pos, t) == SubSeq(s, 1, pos) \o t \o SubSeq(s, pos + 1, Len(s))
RemoveAt(s, pos, n) == SubSeq(s, 1, pos) \o SubSeq(s, pos + n + 1, Len(s))

RECURSIVE DropLeadingBlank(_)
DropLeadingBlank(s) ==
    IF s # <<>> /\ Trim(Head(s)) = "" THEN DropLeadingBlank(Tail(s)) ELSE s

RECURSIVE DropTrailingBlank(_)
DropTrailingBlank(s) ==
    IF s # <<>> /\ Trim(s[Len(s)]) = ""
    THEN DropTrailingBlank(SubSeq(s, 1, Len(s) - 1)) ELSE s

RECURSIVE JoinLines(_)
JoinLines(s) ==
    IF s = <<>> THEN ""
    ELSE IF Len(s) = 1 THEN s[1]
    ELSE s[1] \o "\n" \o JoinLines(Tail(s))

\* (match[1] || '').trim() || 'Progress' for a body given as lines
LabelOfBody(body) ==
    LET core == DropTrailingBlank(DropLeadingBlank(body))
    IN IF core = <<>> THEN DefaultLabel
       ELSE IF Len(core) = 1 THEN Trim(core[1])
       ELSE JoinLines(<<TrimStart(core[1])>> \o SubSeq(core, 2, Len(core) - 1)
                      \o <<TrimEnd(core[Len(core)])>>)

\* source.trim() || 'Progress'
LabelOfSource(source) == IF Trim(source) = "" THEN DefaultLabel ELSE Trim(source)

(***************************************************************************)
(* The Map embeddedBars, kept as a sequence of entries in insertion order  *)
(***************************************************************************)
MapHas(m, p) == \E i \in 1..Len(m) : m[i].path = p

MapGet(m, p) ==
    IF MapHas(m, p)
    THEN m[CHOOSE i \in 1..Len(m) : m[i].path = p].bars
    ELSE <<>>

MapSet(m, p, bars) ==
    IF MapHas(m, p)
    THEN [i \in 1..Len(m) |-> IF m[i].path = p THEN [path |-> p, bars |-> bars] ELSE m[i]]
    ELSE Append(m, [path |-> p, bars |-> bars])

MapDelete(m, p) == SelectSeq(m, LAMBDA e : e.path # p)

\* Array.prototype.find: the first bar that satisfies the test, or none
HasBarId(bars, id) == \E i \in 1..Len(bars) : bars[i].id = id
FindIndexById(bars, id) ==
    CHOOSE i \in 1..Len(bars) :
        bars[i].id = id /\ \A j \in 1..(i - 1) : bars[j].id # id
HasBarLine(bars, line) == \E i \in 1..Len(bars) : bars[i].lineStart = line

(***************************************************************************)
(* Texts with line terminators: a text is the sequence of its line texts   *)
(* (not empty) and of its terminator characters                            *)
(***************************************************************************)
LF == "\n"
CR == "\r"
Terminators == {LF, CR}

\* .replace(/\r\n/g, '\n')
RECURSIVE ReplaceCRLF(_)
ReplaceCRLF(text) ==
    IF text = <<>> THEN <<>>
    ELSE IF Len(text) >= 2 /\ text[1] = CR /\ text[2] = LF
         THEN <<LF>> \o ReplaceCRLF(SubSeq(text, 3, Len(text)))
         ELSE <<text[1]>> \o ReplaceCRLF(Tail(text))

\* .replace(/\r/g, '\n')
ReplaceCR(text) == [i \in 1..Len(text) |-> IF text[i] = CR THEN LF ELSE text[i]]

\* content.replace(/\r\n/g, '\n').replace(/\r/g, '\n')
NormalizeEol(text) == ReplaceCR(ReplaceCRLF(text))

\* the characters between two separators, as one string
RECURSIVE Concat(_)
Concat(text) == IF text = <<>> THEN "" ELSE text[1] \o Concat(Tail(text))

\* text.split('\n')
RECURSIVE SplitLines(_)
SplitLines(text) ==
    LET seps == {i \in 1..Len(text) : text[i] = LF}
    IN IF seps = {} THEN <<Concat(text)>>
       ELSE LET i == CHOOSE x \in seps : \A y \in seps : x <= y
            IN <<Concat(SubSeq(text, 1, i - 1))>> \o SplitLines(SubSeq(text, i + 1, Len(text)))

(***************************************************************************)
(* indexBars: the text scan and the reconciliation with the old table      *)
(***************************************************************************)
\* the temporary workaround: a note whose first line is the fence gets a
\* leading newline (view.editor.setValue('\n' + value))
NeedsLeadingNewline(lines) == Len(lines) > 0 /\ StartsWithSpBar(lines[1])
\* a re-index that prepends a newline whatever the first line is
WithLeadingNewlineAlways(lines) == <<Blank>> \o lines

WithLeadingNewline(lines) == IF NeedsLeadingNewline(lines) THEN <<Blank>> \o lines ELSE lines

\* new Map(existing.map(bar => [bar.id, bar])).get(id): the last bar of that id
ExistingById(existing, id) ==
    existing[CHOOSE i \in 1..Len(existing) :
                existing[i].id = id /\ \A j \in (i + 1)..Len(existing) : existing[j].id # id]

\* a scan that numbers the lines from one
IndexedBarOneBased(lineStart, label, existing) ==
    [id |-> lineStart + 1,
     lineStart |-> lineStart + 1,
     label |-> label,
     source |-> label,
     el |-> IF HasBarId(existing, lineStart + 1)
            THEN ExistingById(existing, lineStart + 1).el ELSE NoEl,
     ctx |-> IF HasBarId(existing, lineStart + 1)
             THEN ExistingById(existing, lineStart + 1).ctx ELSE NoCtx]

\* a re-index that rebuilds every entry without its element and context
IndexedBarUnbound(lineStart, label, existing) ==
    [id |-> lineStart, lineStart |-> lineStart, label |-> label, source |-> label,
     el |-> NoEl, ctx |-> NoCtx]

\* a scan that records the line of the body under the identity of the fence
IndexedBarLineOfBody(lineStart, label, existing) ==
    [id |-> lineStart,
     lineStart |-> lineStart + 1,
     label |-> label,
     source |-> label,
     el |-> IF HasBarId(existing, lineStart) THEN ExistingById(existing, lineStart).el ELSE NoEl,
     ctx |-> IF HasBarId(existing, lineStart) THEN ExistingById(existing, lineStart).ctx ELSE NoCtx]

\* a re-index that binds every entry to the element of the first old entry
IndexedBarFirstElement(lineStart, label, existing) ==
    [id |-> lineStart,
     lineStart |-> lineStart,
     label |-> label,
     source |-> label,
     el |-> IF existing # <<>> THEN existing[1].el ELSE NoEl,
     ctx |-> IF existing # <<>> THEN existing[1].ctx ELSE NoCtx]

IndexedBar(lineStart, label, existing) ==
    [id |-> lineStart,
     lineStart |-> lineStart,
     label |-> label,
     source |-> label,
     el |-> IF HasBarId(existing, lineStart) THEN ExistingById(existing, lineStart).el ELSE NoEl,
     ctx |-> IF HasBarId(existing, lineStart) THEN ExistingById(existing, lineStart).ctx ELSE NoCtx]

\* pattern.exec in a loop: an opening fence line that is followed by a
\* newline, then lazily everything up to the next three backticks; the scan
\* resumes behind the closing backticks.  Positions are 1-based here, the
\* recorded lineStart is the 0-based line of the opening fence.
RECURSIVE ScanBars(_, _, _)
ScanBars(lines, from, existing) ==
    LET opens == {j \in from..(Len(lines) - 1) : StartsWithSpBar(lines[j])}
    IN IF opens = {} THEN <<>>
       ELSE LET j == CHOOSE x \in opens : \A y \in opens : x <= y
                closes == {k \in (j + 1)..Len(lines) : ContainsFence(lines[k])}
            IN IF closes = {} THEN <<>>
               ELSE LET k == CHOOSE x \in closes : \A y \in closes : x <= y
                    IN <<IndexedBar(j - 1, LabelOfBody(SubSeq(lines, j + 1, k - 1)), existing)>>
                       \o ScanBars(lines, k + 1, existing)

(***************************************************************************)
(* countCheckboxes and countCheckboxesInSection                            *)
(***************************************************************************)
\* (content.match(checkedRegex) || []).length over the lines from..to
RECURSIVE CheckedCount(_, _, _)
CheckedCount(lines, from, to) ==
    IF from > to THEN 0 ELSE CheckedIn(lines[from]) + CheckedCount(lines, from + 1, to)

\* (content.match(uncheckedRegex) || []).length over the lines from..to
RECURSIVE UncheckedCount(_, _, _)
UncheckedCount(lines, from, to) ==
    IF from > to THEN 0 ELSE UncheckedIn(lines[from]) + UncheckedCount(lines, from + 1, to)

\* countCheckboxes on lines.slice(start, end).join('\n'), 0-based [start, end)
CountCheckboxes(lines, start, end) ==
    LET checked == CheckedCount(lines, start + 1, end)
        unchecked == UncheckedCount(lines, start + 1, end)
    IN [total |-> checked + unchecked, checked |-> checked]

\* the backward loop starts at lines[codeBlockLine - 1]; behind the end of
\* the text that is undefined and line.match throws a TypeError
SectionThrows(lines, codeBlockLine) == codeBlockLine - 1 >= Len(lines)

\* the backward loop: the nearest heading at or above the 0-based line i,
\* -1 when the loop ends without one
RECURSIVE HeadingAbove(_, _)
HeadingAbove(lines, i) ==
    IF i < 0 THEN -1
    ELSE IF HeadingLevel(lines[i + 1]) > 0 THEN i
    ELSE HeadingAbove(lines, i - 1)

FoundHeading(lines, codeBlockLine) == HeadingAbove(lines, codeBlockLine - 1) >= 0

SectionStart(lines, codeBlockLine) ==
    IF FoundHeading(lines, codeBlockLine) THEN HeadingAbove(lines, codeBlockLine - 1) ELSE 0

SectionLevel(lines, codeBlockLine) ==
    IF FoundHeading(lines, codeBlockLine)
    THEN HeadingLevel(lines[SectionStart(lines, codeBlockLine) + 1])
    ELSE 0

\* a forward loop that stops at the next heading of the same level only
RECURSIVE NextHeadingSameLevel(_, _, _)
NextHeadingSameLevel(lines, i, level) ==
    IF i >= Len(lines) THEN Len(lines)
    ELSE IF HeadingLevel(lines[i + 1]) > 0 /\ HeadingLevel(lines[i + 1]) = level THEN i
    ELSE NextHeadingSameLevel(lines, i + 1, level)

\* the forward loop: the first heading at or below the 0-based line i whose
\* level is at most the level of the section, the line count when none
RECURSIVE NextHeadingUpTo(_, _, _)
NextHeadingUpTo(lines, i, level) ==
    IF i >= Len(lines) THEN Len(lines)
    ELSE IF HeadingLevel(lines[i + 1]) > 0 /\ HeadingLevel(lines[i + 1]) <= level THEN i
    ELSE NextHeadingUpTo(lines, i + 1, level)

SectionEnd(lines, codeBlockLine) ==
    IF FoundHeading(lines, codeBlockLine)
    THEN NextHeadingUpTo(lines, codeBlockLine + 1, SectionLevel(lines, codeBlockLine))
    ELSE Len(lines)

CountCheckboxesInSection(lines, codeBlockLine) ==
    CountCheckboxes(lines, SectionStart(lines, codeBlockLine), SectionEnd(lines, codeBlockLine))

\* Math.round((checked / total) * 100)
\* Math.round((checked / total) * 100) in IEEE doubles: the product is a
\* half exactly when 200 * checked / total is odd, and for the quotients
\* 29/200, 57/200, 113/200 and 115/200 the doubles give a value just below
\* the half (14.499999999999998, 28.499999999999996, 56.49999999999999,
\* 57.49999999999999), which rounds down; every other half rounds up
RoundsBelowHalf(checked, total) == \E m \in {29, 57, 113, 115} : 200 * checked = m * total
Percentage(checked, total) ==
    IF RoundsBelowHalf(checked, total) THEN (100 * checked) \div total
    ELSE (200 * checked + total) \div (2 * total)

(***************************************************************************)
(* Elements, their displayed content, and the animation frame callbacks    *)
(***************************************************************************)
InitialContent == [kind |-> "initial", label |-> "", checked |-> 0, total |-> 0, percentage |-> 0,
                   text |-> ""]
\* el.empty()
EmptyContent == [kind |-> "empty", label |-> "", checked |-> 0, total |-> 0, percentage |-> 0,
                 text |-> ""]
\* a bar drawn for a section without items
NoTasksAsBar == [kind |-> "bar", label |-> DefaultLabel, checked |-> 0, total |-> 0,
                 percentage |-> 0, text |-> "0/0 (0%)"]

\* the div 'sp-bar-no-tasks' with the text 'No checkboxes in this section'
NoTasksContent == [kind |-> "notasks", label |-> "", checked |-> 0, total |-> 0, percentage |-> 0,
                   text |-> NoTasksText]
\* the template literal checked/total (percentage%)
BarText(checked, total, percentage) ==
    ToString(checked) \o "/" \o ToString(total) \o " (" \o ToString(percentage) \o "%)"

\* the container with the label, the track (fill width percentage%) and the text
BarContent(label, checked, total) ==
    [kind |-> "bar", label |-> label, checked |-> checked, total |-> total,
     percentage |-> Percentage(checked, total),
     text |-> BarText(checked, total, Percentage(checked, total))]

NewElement == [barId |-> NoStamp, isConnected |-> FALSE, content |-> InitialContent]

\* what is observed of an element: the document and the marker block the
\* host made it for (and whether its layout handle knew the line), whether it
\* has been attached since, and for the content it shows the table path, the
\* document whose text was read, the block that begins at the line used, that
\* line and the section [start, end) that was resolved for it, or that the
\* section resolver threw, and whether a document-wide refresh did it; also
\* whether a refresh has passed over the element because it was detached, and
\* the line of the checkbox that the last edit checked or unchecked while the
\* element was attached (-1 when the last edit was none of this, or the
\* element was detached or the file switched since), and whether the host
\* has handed the element to a render callback before the last one
NoWrite == [path |-> NoPath, textPath |-> NoPath, block |-> NoBlock,
            line |-> -1, start |-> -1, end |-> -1, fault |-> FALSE, inRefresh |-> FALSE]
NewHist == [madeFor |-> [path |-> NoPath, label |-> NoBlock, info |-> FALSE],
            wasAttached |-> FALSE,
            skipped |-> FALSE,
            toggled |-> -1,
            reused |-> FALSE,
            wrote |-> NoWrite]

\* a requestAnimationFrame callback with what its closure captured; el, info
\* and yields are observations (the element and the layout answer of the
\* render callback that requested it, the frames waited since)
RefreshTask == [kind |-> "refresh", filePath |-> NoPath, barId |-> 0, source |-> "",
                el |-> NoEl, info |-> FALSE, yields |-> 0]
\* a render callback that waits for one animation frame only
DeferredTaskOneFrame(filePath, barId, source, el, info) ==
    [kind |-> "raf2", filePath |-> filePath, barId |-> barId, source |-> source,
     el |-> el, info |-> info, yields |-> 0]

DeferredTask(filePath, barId, source, el, info) ==
    [kind |-> "raf1", filePath |-> filePath, barId |-> barId, source |-> source,
     el |-> el, info |-> info, yields |-> 0]

\* the label of the marker block whose opening fence is the 0-based line,
\* NoBlock when no block begins there (observation only)
BlockAt(lines, line) ==
    IF line >= 0 /\ line + 2 <= Len(lines) /\ StartsWithSpBar(lines[line + 1])
    THEN lines[line + 2] ELSE NoBlock

\* 0-based lines at which a marker block begins
FenceLines(lines) == {i \in 0..(Len(lines) - 1) : BlockAt(lines, i) # NoBlock}

BlockLabels(lines) == {BlockAt(lines, i) : i \in FenceLines(lines)}

\* 0-based line of the block with this label (labels are unique in a document)
BlockLineOf(lines, label) == CHOOSE i \in FenceLines(lines) : BlockAt(lines, i) = label

(***************************************************************************)
(* The handlers, as functions of the state st =                            *)
(* [docs, bars, current, raf, els, hist, threw]                            *)
(***************************************************************************)
\* main.ts editor-change handler: the view is active, a refresh is requested
\* for the next frame
EditorChange(raf) == Append(raf, RefreshTask)

\* a re-index that scans the text it read before the workaround
IndexBarsBeforeWorkaround(st) ==
    LET before == st.docs[active]
    IN [st EXCEPT
          !.docs = [st.docs EXCEPT ![active] = WithLeadingNewline(before)],
          !.raf = IF NeedsLeadingNewline(before) THEN EditorChange(st.raf) ELSE st.raf,
          !.bars = MapSet(st.bars, active, ScanBars(before, 1, MapGet(st.bars, active))),
          !.current = active]

\* a re-index that sets the editor value, and so notifies an edit, every time
IndexBarsAlwaysNotifies(st) ==
    LET before == st.docs[active]
        lines == WithLeadingNewline(before)
    IN [st EXCEPT
          !.docs = [st.docs EXCEPT ![active] = lines],
          !.raf = EditorChange(st.raf),
          !.bars = MapSet(st.bars, active, ScanBars(lines, 1, MapGet(st.bars, active))),
          !.current = active]

\* SectionProgressBar.indexBars(view)
IndexBars(st) ==
    LET before == st.docs[active]
        lines == WithLeadingNewline(before)
    IN [st EXCEPT
          !.docs = [st.docs EXCEPT ![active] = lines],
          !.raf = IF NeedsLeadingNewline(before) THEN EditorChange(st.raf) ELSE st.raf,
          !.bars = MapSet(st.bars, active, ScanBars(lines, 1, MapGet(st.bars, active))),
          !.current = active]

\* SectionProgressBar.updateEmbeddedBar(filePath, barId, view)
UpdateEmbeddedBar(st, filePath, barId) ==
    LET bars == MapGet(st.bars, filePath)
    IN IF ~HasBarId(bars, barId) THEN st
       ELSE
       LET barInfo == bars[FindIndexById(bars, barId)]
           el == barInfo.el
       IN IF el = NoEl THEN st
          ELSE
          LET emptied == [st EXCEPT !.els[el].content = EmptyContent]
              stamp == st.els[el].barId
              lines == st.docs[active]
              label == IF barInfo.label # "" THEN barInfo.label ELSE LabelOfSource(barInfo.source)
              counts == CountCheckboxesInSection(lines, barInfo.lineStart)
              seen == [emptied EXCEPT
                         !.hist[el].wrote =
                             [path |-> filePath, textPath |-> active,
                              block |-> BlockAt(lines, barInfo.lineStart),
                              line |-> barInfo.lineStart,
                              start |-> SectionStart(lines, barInfo.lineStart),
                              end |-> SectionEnd(lines, barInfo.lineStart),
                              fault |-> FALSE, inRefresh |-> FALSE]]
              faulted == [emptied EXCEPT
                            !.threw = TRUE,
                            !.hist[el].wrote =
                                [NoWrite EXCEPT !.path = filePath, !.textPath = active,
                                                !.line = barInfo.lineStart, !.fault = TRUE]]
          IN IF stamp # NoStamp /\ stamp # barId THEN emptied
             ELSE IF SectionThrows(lines, barInfo.lineStart) THEN faulted
             ELSE IF counts.total = 0 THEN [seen EXCEPT !.els[el].content = NoTasksContent]
             ELSE [seen EXCEPT !.els[el].content = BarContent(label, counts.checked, counts.total)]

\* the entries of the Map in iteration order, one per bar
RECURSIVE FlatBars(_)
FlatBars(m) ==
    IF m = <<>> THEN <<>>
    ELSE [i \in 1..Len(m[1].bars) |-> [path |-> m[1].path, bar |-> m[1].bars[i]]]
         \o FlatBars(Tail(m))

\* what a refresh does with one bar of the table: a bar without element, with
\* a detached element or with the stamp of another identity is passed over
UpdateOneBar(st, path, bar) ==
    IF bar.el = NoEl THEN st
    ELSE IF ~st.els[bar.el].isConnected THEN [st EXCEPT !.hist[bar.el].skipped = TRUE]
    ELSE IF st.els[bar.el].barId # NoStamp /\ st.els[bar.el].barId # bar.id THEN st
    ELSE [UpdateEmbeddedBar(st, path, bar.id) EXCEPT !.hist[bar.el].wrote.inRefresh = TRUE]

\* a refresh that drops the bars whose element is detached
RECURSIVE UpdateBarsDroppingDetached(_, _)
UpdateBarsDroppingDetached(st, flat) ==
    IF flat = <<>> \/ st.threw THEN st
    ELSE LET bar == flat[1].bar
             path == flat[1].path
             dropped == [st EXCEPT !.bars = MapSet(st.bars, path,
                            SelectSeq(MapGet(st.bars, path), LAMBDA b : b.id # bar.id))]
         IN UpdateBarsDroppingDetached(
                IF bar.el # NoEl /\ ~st.els[bar.el].isConnected
                THEN dropped ELSE UpdateOneBar(st, path, bar),
                Tail(flat))

\* the loops of updateAllEmbeddedBars; an exception ends them
RECURSIVE UpdateBars(_, _)
UpdateBars(st, flat) ==
    IF flat = <<>> \/ st.threw THEN st
    ELSE UpdateBars(UpdateOneBar(st, flat[1].path, flat[1].bar), Tail(flat))

\* SectionProgressBar.updateAllEmbeddedBars(view)
UpdateAllEmbeddedBars(st) ==
    LET indexed == IndexBars(st)
    IN UpdateBars(indexed, FlatBars(indexed.bars))

\* the fallback of the render callback: the first match of the fallback
\* pattern whose line no bar of the table has as lineStart, else 0
FallbackLine(lines, bars) ==
    LET free == {j \in 1..(Len(lines) - 1) :
                    IsFallbackFence(lines[j]) /\ ~HasBarLine(bars, j - 1)}
    IN IF free = {} THEN 0
       ELSE (CHOOSE j \in free : \A k \in free : j <= k) - 1

\* a render callback that adds an entry without looking for the identity
UpsertAlwaysPush(bars, barId, lineStart, source, el, ctx) ==
    Append(bars, [el |-> el, source |-> source, label |-> LabelOfSource(source),
                  ctx |-> ctx, lineStart |-> lineStart, id |-> barId])

\* an upsert that leaves the element and the context of an entry it finds
UpsertKeepsElement(bars, barId, lineStart, source, el, ctx) ==
    IF HasBarId(bars, barId)
    THEN [bars EXCEPT ![FindIndexById(bars, barId)] =
            [@ EXCEPT !.source = source, !.label = LabelOfSource(source)]]
    ELSE Append(bars, [el |-> el, source |-> source, label |-> LabelOfSource(source),
                       ctx |-> ctx, lineStart |-> lineStart, id |-> barId])

\* the upsert of the render callback
Upsert(bars, barId, lineStart, source, el, ctx) ==
    IF HasBarId(bars, barId)
    THEN [bars EXCEPT ![FindIndexById(bars, barId)] =
            [@ EXCEPT !.el = el, !.source = source,
                      !.label = LabelOfSource(source), !.ctx = ctx]]
    ELSE Append(bars, [el |-> el, source |-> source, label |-> LabelOfSource(source),
                       ctx |-> ctx, lineStart |-> lineStart, id |-> barId])

\* SectionProgressBar.renderEmbeddedProgressBar(source, el, ctx, view);
\* infoLine is ctx.getSectionInfo(el).lineStart, or -1 when there is none
RenderEmbeddedProgressBar(st, source, el, ctx, infoLine) ==
    LET filePath == ctx.sourcePath
        indexed == IndexBars(st)
        cleared == IF indexed.current # NoPath /\ indexed.current # filePath
                   THEN MapDelete(indexed.bars, indexed.current) ELSE indexed.bars
        ready == IF MapHas(cleared, filePath) THEN cleared ELSE MapSet(cleared, filePath, <<>>)
        lineStart == IF infoLine = -1
                     THEN FallbackLine(indexed.docs[active], MapGet(ready, filePath))
                     ELSE infoLine
        barId == lineStart
    IN [indexed EXCEPT
          !.bars = MapSet(ready, filePath,
                          Upsert(MapGet(ready, filePath), barId, lineStart, source, el, ctx)),
          !.current = filePath,
          !.els[el].barId = barId,
          !.raf = Append(indexed.raf, DeferredTask(filePath, barId, source, el, infoLine # -1)),
          !.hist[el] = [madeFor |-> [path |-> filePath, label |-> source,
                                     info |-> infoLine # -1],
                        wasAttached |-> st.els[el].isConnected, skipped |-> FALSE,
                        toggled |-> -1,
                        reused |-> st.hist[el].madeFor.path # NoPath,
                        wrote |-> NoWrite]]

(***************************************************************************)
(* The state machine                                                       *)
(***************************************************************************)
\* no line number has been computed yet
NoLineNumbers == [reindex |-> <<>>, fallback |-> <<>>, resolver |-> <<>>, done |-> {}]

InitDocs ==
    [p \in Paths |->
        IF p = "A.md"
        THEN <<Heading2, FenceOpen, "A", FenceClose, Unchecked>>
        ELSE <<Blank, FenceOpen, BlankLabel, FenceClose, Checked>>]

Init ==
    /\ docs = InitDocs
    /\ active = "A.md"
    /\ embeddedBars = <<>>
    /\ currentFilePath = NoPath
    /\ els = [e \in Elements |-> NewElement]
    /\ rafQueue = <<>>
    /\ running = <<>>
    /\ hist = [e \in Elements |-> NewHist]
    /\ prevActive = NoPath
    /\ events = 0
    /\ rawText = <<>>
    /\ lineNumbers = NoLineNumbers

St == [docs |-> docs, bars |-> embeddedBars, current |-> currentFilePath,
       raf |-> rafQueue, els |-> els, hist |-> hist, threw |-> FALSE]

Commit(st) ==
    /\ docs' = st.docs
    /\ embeddedBars' = st.bars
    /\ currentFilePath' = st.current
    /\ rafQueue' = st.raf
    /\ els' = st.els
    /\ hist' = st.hist

\* a line that is not part of a marker block
PlainLineAt(lines, pos) == \A f \in FenceLines(lines) : ~(f <= pos /\ pos <= f + 2)

\* the host acts between two animation frames, never inside one
HostEvent ==
    /\ events < MaxHostEvents
    /\ running = <<>>
    /\ events' = events + 1
    /\ UNCHANGED <<rawText, lineNumbers>>

\* the 0-based line of the one checkbox that differs between two texts of the
\* same length, -1 when the texts do not differ by one checkbox (observation)
ToggledLine(old, new) ==
    LET changed == {i \in 1..Len(old) : Len(new) = Len(old) /\ new[i] # old[i]}
    IN IF /\ Len(new) = Len(old)
          /\ Cardinality(changed) = 1
          /\ \A i \in changed : {old[i], new[i]} = {Checked, Unchecked}
       THEN (CHOOSE i \in changed : TRUE) - 1
       ELSE -1

\* the user changes the text of the active note; the host then fires
\* 'editor-change' (main.ts)
UserEdit(lines) ==
    /\ HostEvent
    /\ docs' = [docs EXCEPT ![active] = lines]
    /\ rafQueue' = EditorChange(rafQueue)
    /\ hist' = [e \in Elements |->
                  [hist[e] EXCEPT !.toggled = IF els[e].isConnected
                                              THEN ToggledLine(docs[active], lines) ELSE -1]]
    /\ UNCHANGED <<active, embeddedBars, currentFilePath, els, prevActive, running>>

\* the positions of the edits: above everything and below everything
EditPositions(lines) == {0, Len(lines)}

\* the host hands out its elements in this order; it may also hand out
\* again an element it has handed out before
ElementOrder == <<"el1", "el2">>
MayHandOut(e) ==
    \E i \in 1..Len(ElementOrder) :
        /\ ElementOrder[i] = e
        /\ \A j \in 1..(i - 1) : hist[ElementOrder[j]].madeFor.path # NoPath

InsertLine ==
    \E pos \in EditPositions(docs[active]), line \in PlainLines :
        UserEdit(InsertAt(docs[active], pos, <<line>>))

DeleteLine ==
    \E pos \in {0} :
        /\ Len(docs[active]) > 1
        /\ PlainLineAt(docs[active], pos)
        /\ UserEdit(RemoveAt(docs[active], pos, 1))

InsertBlock ==
    \E pos \in {0}, label \in Labels \ BlockLabels(docs[active]) :
        UserEdit(InsertAt(docs[active], pos, <<FenceOpen, label, FenceClose>>))

DeleteBlock ==
    \E f \in FenceLines(docs[active]) :
        /\ Len(docs[active]) > 3
        /\ UserEdit(RemoveAt(docs[active], f, 3))

ToggleCheckbox ==
    \E pos \in 1..Len(docs[active]) :
        /\ docs[active][pos] \in {Checked, Unchecked}
        /\ UserEdit([docs[active] EXCEPT ![pos] = IF @ = Checked THEN Unchecked ELSE Checked])

\* the user selects the whole text and deletes it
ClearDocument ==
    /\ docs[active] # <<Blank>>
    /\ UserEdit(<<Blank>>)

\* the user opens the other note in the view
SwitchFile ==
    \E p \in Paths \ {active} :
        /\ HostEvent
        /\ active' = p
        /\ prevActive' = active
        /\ hist' = [e \in Elements |-> [hist[e] EXCEPT !.toggled = -1]]
        /\ UNCHANGED <<docs, embeddedBars, currentFilePath, els, rafQueue, running>>

\* the element has been handed to a render callback
Supplied(e) == hist[e].madeFor.path # NoPath

\* the host attaches an element it has handed out to the document view
Attach ==
    \E e \in Elements :
        /\ HostEvent
        /\ Supplied(e)
        /\ ~els[e].isConnected
        /\ els' = [els EXCEPT ![e].isConnected = TRUE]
        /\ hist' = [hist EXCEPT ![e].wasAttached = TRUE]
        /\ UNCHANGED <<docs, active, embeddedBars, currentFilePath, rafQueue, running, prevActive>>

\* the host removes an element from the document view
Detach ==
    \E e \in Elements :
        /\ HostEvent
        /\ els[e].isConnected
        /\ els' = [els EXCEPT ![e].isConnected = FALSE]
        /\ hist' = [hist EXCEPT ![e].toggled = -1]
        /\ UNCHANGED <<docs, active, embeddedBars, currentFilePath, rafQueue, running,
                       prevActive>>

\* main.ts registerMarkdownCodeBlockProcessor('sp-bar', ...): the host renders
\* a marker block of the document p into the element e; its layout handle
\* knows the line of the block or knows nothing
Render ==
    \E p \in Paths, e \in Elements, hasInfo \in BOOLEAN :
      \E source \in BlockLabels(docs[p]) :
        LET shown == IndexBars(St).docs[p]
            infoLine == IF hasInfo THEN BlockLineOf(shown, source) ELSE -1
            ctx == [sourcePath |-> p, infoLine |-> infoLine]
            st == RenderEmbeddedProgressBar(St, source, e, ctx, infoLine)
        IN /\ HostEvent
           /\ MayHandOut(e)
           /\ Commit(st)
           /\ UNCHANGED <<active, running, prevActive>>

\* the host starts an animation frame: the callbacks requested so far run,
\* in the order of their requests
BeginFrame ==
    /\ running = <<>>
    /\ rafQueue # <<>>
    /\ running' = [i \in 1..Len(rafQueue) |-> [rafQueue[i] EXCEPT !.yields = @ + 1]]
    /\ rafQueue' = <<>>
    /\ UNCHANGED <<docs, active, embeddedBars, currentFilePath, els, hist, prevActive, events,
                   rawText, lineNumbers>>

\* the outer requestAnimationFrame callback of the render callback
RunOuterFrame ==
    /\ running # <<>>
    /\ Head(running).kind = "raf1"
    /\ rafQueue' = Append(rafQueue, [Head(running) EXCEPT !.kind = "raf2"])
    /\ running' = Tail(running)
    /\ UNCHANGED <<docs, active, embeddedBars, currentFilePath, els, hist, prevActive, events,
                   rawText, lineNumbers>>

\* the inner requestAnimationFrame callback: the deferred recomputation
RunDeferredUpdate ==
    /\ running # <<>>
    /\ Head(running).kind = "raf2"
    /\ Commit(UpdateEmbeddedBar(St, Head(running).filePath, Head(running).barId))
    /\ running' = Tail(running)
    /\ UNCHANGED <<active, prevActive, events, rawText, lineNumbers>>

\* the callback of the editor-change handler: the document-wide refresh
RunRefresh ==
    /\ running # <<>>
    /\ Head(running).kind = "refresh"
    /\ Commit(UpdateAllEmbeddedBars(St))
    /\ running' = Tail(running)
    /\ UNCHANGED <<active, prevActive, events, rawText, lineNumbers>>

Next ==
    \/ InsertLine
    \/ DeleteLine
    \/ InsertBlock
    \/ DeleteBlock
    \/ ToggleCheckbox
    \/ ClearDocument
    \/ SwitchFile
    \/ Attach
    \/ Detach
    \/ Render
    \/ BeginFrame
    \/ RunOuterFrame
    \/ RunDeferredUpdate
    \/ RunRefresh

Spec == Init /\ [][Next]_vars

(***************************************************************************)
(* The same handlers on a family of documents: the user has opened the     *)
(* note B.md (one host event, the switch from the empty note A.md), which  *)
(* is one of the sample documents; the user does not edit it, the host     *)
(* renders its marker blocks, attaches the elements and runs the animation *)
(* frames.                                                                 *)
(***************************************************************************)
SeqsUpTo(S, n) == UNION {[1..k -> S] : k \in 0..n}

\* the example of the specification, with one marker and with a second
\* marker under the second heading
SpecExample ==
    <<"## A", "- [ ]x", "- [x]y", FenceOpen, "Label", FenceClose, "## B", "- [x]z", Blank>>
SpecExampleTwo ==
    <<"## A", "- [ ]x", "- [x]y", FenceOpen, "Label", FenceClose,
      "## B", "- [x]z", FenceOpen, "A", FenceClose, Blank>>

\* the example of the README (Embedded Section Progress)
ReadmeExample ==
    <<"## Section 1", Blank, FenceOpen, "Progress", FenceClose, Blank,
      "- [ ] Task A", "- [x] Task B", "- [ ] Task C">>

\* headings of the levels 1, 2, 2, 3, 1 with the marker under the third
LevelsExample ==
    <<Heading1, Heading2, Checked, Heading2, FenceOpen, "A", FenceClose, Unchecked,
      Heading3, Checked, Heading1, Unchecked>>

\* a marker whose label reads like a checkbox, and the same with a plain label
CheckboxLabelExamples ==
    {<<Heading2, FenceOpen, l, FenceClose, Checked>> : l \in {"- [ ] L", "- [X] L", "A"}}

\* two of three items are checked: the percentage is rounded up
RoundingExample == <<Heading2, FenceOpen, "A", FenceClose, Checked, Checked, Unchecked>>

\* what stands above the marker block of a generated document
AboveChoices ==
    {<<>>, <<Heading1>>, <<Heading2>>, <<Checked>>, <<Heading1, Heading2>>, <<Heading2, Checked>>}

GeneratedDocs ==
    {above \o <<FenceOpen, "A", FenceClose>> \o below :
        above \in AboveChoices,
        below \in SeqsUpTo({Heading1, Heading2, Heading3, Unchecked}, MaxBelow)}

SampleDocs ==
    {SpecExample, SpecExampleTwo, ReadmeExample, LevelsExample, RoundingExample}
    \cup CheckboxLabelExamples \cup GeneratedDocs

DocInit ==
    /\ docs \in {[p \in Paths |-> IF p = "B.md" THEN d ELSE <<Blank>>] : d \in SampleDocs}
    /\ active = "B.md"
    /\ embeddedBars = <<>>
    /\ currentFilePath = NoPath
    /\ els = [e \in Elements |-> NewElement]
    /\ rafQueue = <<>>
    /\ running = <<>>
    /\ hist = [e \in Elements |-> NewHist]
    /\ prevActive = "A.md"
    /\ events = 1
    /\ rawText = <<>>
    /\ lineNumbers = NoLineNumbers

DocNext ==
    \/ Render
    \/ Attach
    \/ BeginFrame
    \/ RunOuterFrame
    \/ RunDeferredUpdate
    \/ RunRefresh

DocSpec == DocInit /\ [][DocNext]_vars

(***************************************************************************)
(* The line-number computations on texts with any line terminators: the    *)
(* text is drawn from the lines of the two notes, every line ended by      *)
(* "\n", by "\r\n" or by "\r"; each of the three computations is applied   *)
(* to it once.                                                             *)
(***************************************************************************)
\* the elements of a finite set of numbers in ascending order
RECURSIVE Ascending(_)
Ascending(S) ==
    IF S = {} THEN <<>>
    ELSE LET m == CHOOSE x \in S : \A y \in S : x <= y
         IN <<m>> \o Ascending(S \ {m})

\* indexBars: the lineStart of every marker block, counted on the
\* normalized text
ReindexLineNumbers(text) ==
    LET bars == ScanBars(SplitLines(NormalizeEol(text)), 1, <<>>)
    IN [k \in 1..Len(bars) |-> bars[k].lineStart]

\* \s on a piece of the text: a line terminator, or the text of a line that
\* holds nothing but blanks
IsWhiteSpace(piece) == piece \in Terminators \/ Trim(piece) = ""

\* the fallback pattern (anchor ^, the opening fence, \s*, \n; flags gm)
\* matches at position i of the text as the editor returns it: the fence
\* text at the start of the text or behind a line terminator ("\n" or "\r"),
\* then white space (terminators and lines of blanks) up to and including
\* a "\n"
MatchesFallbackAt(text, i) ==
    /\ IsFallbackFence(text[i])
    /\ (i = 1 \/ text[i - 1] \in Terminators)
    /\ \E j \in (i + 1)..Len(text) :
          text[j] = LF /\ \A k \in (i + 1)..j : IsWhiteSpace(text[k])

\* getValue().substring(0, match.index).split('\n').length - 1
CalculatedLine(text, i) == Len(SplitLines(SubSeq(text, 1, i - 1))) - 1

\* the render callback's fallback scan: the calculatedLine of the match at
\* every opening fence of the text, -1 for a fence without match
FallbackLineNumbers(text) ==
    LET fences == Ascending({i \in 1..Len(text) : IsFallbackFence(text[i])})
    IN [k \in 1..Len(fences) |->
          IF MatchesFallbackAt(text, fences[k]) THEN CalculatedLine(text, fences[k]) ELSE -1]

\* updateEmbeddedBar and countCheckboxesInSection: the indices of the lines
\* of the normalized text that open a marker block
ResolverLineNumbers(text) ==
    LET lines == SplitLines(NormalizeEol(text))
    IN Ascending({i - 1 : i \in {j \in 1..Len(lines) : StartsWithSpBar(lines[j])}})

\* the lines with their terminators; an empty line has no text
RECURSIVE WithTerminators(_, _)
WithTerminators(lines, eols) ==
    IF lines = <<>> THEN <<>>
    ELSE (IF lines[1] = "" THEN <<>> ELSE <<lines[1]>>) \o eols[1]
         \o WithTerminators(Tail(lines), Tail(eols))

EolChoices == {<<LF>>, <<CR, LF>>, <<CR>>}
RawTexts ==
    {WithTerminators(InitDocs[p], eols) :
        p \in Paths, eols \in [1..Len(InitDocs["A.md"]) -> EolChoices]}

TextInit ==
    /\ docs = InitDocs
    /\ active = "A.md"
    /\ embeddedBars = <<>>
    /\ currentFilePath = NoPath
    /\ els = [e \in Elements |-> NewElement]
    /\ rafQueue = <<>>
    /\ running = <<>>
    /\ hist = [e \in Elements |-> NewHist]
    /\ prevActive = NoPath
    /\ events = 0
    /\ rawText \in RawTexts
    /\ lineNumbers = NoLineNumbers

\* one of the computations is applied to the text
Computes(what, numbers) ==
    /\ what \notin lineNumbers.done
    /\ lineNumbers' = [lineNumbers EXCEPT ![what] = numbers, !.done = @ \cup {what}]
    /\ UNCHANGED <<docs, active, embeddedBars, currentFilePath, els, rafQueue, running, hist,
                   prevActive, events, rawText>>

ApplyReindexScan == Computes("reindex", ReindexLineNumbers(rawText))
ApplyFallbackScan == Computes("fallback", FallbackLineNumbers(rawText))
ApplyResolverSplit == Computes("resolver", ResolverLineNumbers(rawText))

TextNext ==
    \/ ApplyReindexScan
    \/ ApplyFallbackScan
    \/ ApplyResolverSplit

TextSpec == TextInit /\ [][TextNext]_vars

(***************************************************************************)
(* The display of a count: the bar of a section with total checkboxes, of  *)
(* which checked are checked, is drawn into an element that shows nothing  *)
(* yet.                                                                    *)
(***************************************************************************)
\* updateEmbeddedBar from the percentage on: the bar for these counts
ShowCounts ==
    /\ \A x \in Elements : els[x].content = InitialContent
    /\ \E e \in Elements, total \in 1..MaxTotal :
          \E checked \in 0..total :
             els' = [els EXCEPT ![e].content = BarContent(DefaultLabel, checked, total)]
    /\ UNCHANGED <<docs, active, embeddedBars, currentFilePath, rafQueue, running, hist,
                   prevActive, events, rawText, lineNumbers>>

PctNext == ShowCounts

PctSpec == Init /\ [][PctNext]_vars

(***************************************************************************)
(* Vocabulary of the properties                                            *)
(***************************************************************************)
IdsOf(bars) == {bars[i].id : i \in 1..Len(bars)}
Written(content) == content.kind \in {"bar", "notasks"}
Pending == {running[i] : i \in 1..Len(running)} \cup {rafQueue[i] : i \in 1..Len(rafQueue)}

\* the step runs the first callback of the frame, and it is of this kind
RunsCallback(kind) ==
    /\ running # <<>>
    /\ Head(running).kind = kind
    /\ running' = Tail(running)

\* the first callback of the running frame is of this kind
CallbackDue(kind) == running # <<>> /\ Head(running).kind = kind

\* weak fairness of the callback of this kind, written out: the step that
\* runs it is enabled exactly when the callback is due (it always takes the
\* callback off the frame), so either the callback is not due infinitely
\* often or it runs infinitely often
CallbackRuns(kind) == []<>(~CallbackDue(kind)) \/ []<><<RunsCallback(kind)>>_vars

\* the host starts an animation frame whenever a callback has been requested,
\* and a frame runs all its callbacks (requestAnimationFrame)
FramesRun ==
    /\ WF_vars(BeginFrame)
    /\ WF_vars(RunOuterFrame)
    /\ CallbackRuns("raf2")
    /\ CallbackRuns("refresh")

FairDocSpec == DocSpec /\ FramesRun

\* the step is a render callback: it requests its outer animation frame last
IsRenderStep ==
    /\ Len(rafQueue') > Len(rafQueue)
    /\ rafQueue'[Len(rafQueue')].kind = "raf1"
RenderedTask == rafQueue'[Len(rafQueue')]

(***************************************************************************)
(* C1: no recomputation writes the counts of one marker block into the     *)
(* element that the host made for another marker block of the document.   *)
(* An element is compared with the block that begins at the line whose     *)
(* section was counted for the content it shows; only elements whose       *)
(* render callback got the line of the block from the host are looked at.  *)
(***************************************************************************)
C1_NoCrossTalk ==
    \A e \in Elements :
        (/\ Written(els[e].content)
         /\ hist[e].madeFor.info
         /\ hist[e].wrote.block # NoBlock
         /\ hist[e].wrote.path = hist[e].madeFor.path
         /\ hist[e].wrote.textPath = hist[e].madeFor.path)
        => hist[e].wrote.block = hist[e].madeFor.label

(***************************************************************************)
(* C2: in every reachable state the table of every path holds at most one  *)
(* marker per identity (and the Map holds every path once).                *)
(***************************************************************************)
C2_OneMarkerPerIdentity ==
    /\ \A i, j \in 1..Len(embeddedBars) :
          embeddedBars[i].path = embeddedBars[j].path => i = j
    /\ \A i \in 1..Len(embeddedBars) :
          \A j, k \in 1..Len(embeddedBars[i].bars) :
              embeddedBars[i].bars[j].id = embeddedBars[i].bars[k].id => j = k

\* a table that both the scan and a render callback have filled: two
\* markers under one path, one of them bound by a render callback
C2_Witness ==
    \E i \in 1..Len(embeddedBars) :
        /\ Len(embeddedBars[i].bars) >= 2
        /\ \E j \in 1..Len(embeddedBars[i].bars) :
              /\ embeddedBars[i].bars[j].el # NoEl
              /\ embeddedBars[i].bars[j].id \in FenceLines(docs[embeddedBars[i].path])
        /\ \E j \in 1..Len(embeddedBars[i].bars) : embeddedBars[i].bars[j].el = NoEl

(***************************************************************************)
(* C3: a render callback whose layout handle reports no line takes as      *)
(* identity the line of a marker block of the current text, the first one  *)
(* in source order that no entry of the table claimed when the callback    *)
(* began.                                                                  *)
(***************************************************************************)
C3_FallbackFindsMarkerLine ==
    [][(IsRenderStep /\ ~RenderedTask.info /\ RenderedTask.filePath = active)
       => /\ RenderedTask.barId \in FenceLines(docs'[active])
          /\ \A f \in FenceLines(docs'[active]) :
                f < RenderedTask.barId => HasBarLine(MapGet(embeddedBars, active), f)]_vars

(***************************************************************************)
(* C4: right after a re-index (observed at the document-wide refresh,      *)
(* whose recomputations leave the table alone) the identities of the       *)
(* active document are exactly the lines at which its marker blocks begin. *)
(***************************************************************************)
C4_IdentitiesAreFenceLines ==
    [][RunsCallback("refresh")
       => IdsOf(MapGet(embeddedBars', active)) = FenceLines(docs'[active])]_vars

\* a line was inserted above the markers and the re-index has moved every
\* identity by one
C4_Witness ==
    \E p \in Paths :
        /\ running = <<>> /\ rafQueue = <<>>
        /\ FenceLines(docs[p]) = {f + 1 : f \in FenceLines(InitDocs[p])}
        /\ IdsOf(MapGet(embeddedBars, p)) = FenceLines(docs[p])

(***************************************************************************)
(* C5: a re-index keeps the element and the context of every identity      *)
(* that was in the table of the path before, adds every other identity     *)
(* unbound, and drops the identities the scan does not find.               *)
(***************************************************************************)
C5_ReindexReconciles ==
    [][RunsCallback("refresh")
       => LET before == MapGet(embeddedBars, active)
              after == MapGet(embeddedBars', active)
          IN /\ \A i \in 1..Len(after) :
                   IF HasBarId(before, after[i].id)
                   THEN /\ after[i].el = before[FindIndexById(before, after[i].id)].el
                        /\ after[i].ctx = before[FindIndexById(before, after[i].id)].ctx
                   ELSE /\ after[i].el = NoEl
                        /\ after[i].ctx = NoCtx
             /\ \A id \in IdsOf(before) \ FenceLines(docs'[active]) : ~HasBarId(after, id)]_vars

\* after an edit and its refresh the table of the edited document holds a
\* marker that kept its element and a marker that was added unbound
C5_Witness ==
    \E p \in Paths :
        /\ running = <<>> /\ rafQueue = <<>>
        /\ docs[p] # InitDocs[p]
        /\ IdsOf(MapGet(embeddedBars, p)) = FenceLines(docs[p])
        /\ \E i, j \in 1..Len(MapGet(embeddedBars, p)) :
              /\ MapGet(embeddedBars, p)[i].el # NoEl
              /\ MapGet(embeddedBars, p)[j].el = NoEl

(***************************************************************************)
(* C6: no recomputation writes into an element that is no longer attached  *)
(* to the document view, and the table is left as it is.                   *)
(***************************************************************************)
C6_DetachedIsNoOp ==
    [][\A e \in Elements :
          (/\ RunsCallback("raf2")
           /\ Head(running).info
           /\ Head(running).filePath = active
           /\ hist[e].wasAttached
           /\ ~els[e].isConnected)
          => /\ ~(Written(els'[e].content) /\ els'[e].content # els[e].content)
             /\ embeddedBars' = embeddedBars]_vars

(***************************************************************************)
(* C7: a recomputation whose target element carries the stamp of another   *)
(* identity leaves the content of the element and the table unchanged.     *)
(***************************************************************************)
C7_MismatchLeavesContent ==
    [][(/\ RunsCallback("raf2")
        /\ Head(running).filePath = active
        /\ HasBarId(MapGet(embeddedBars, Head(running).filePath), Head(running).barId))
       => LET bars == MapGet(embeddedBars, Head(running).filePath)
              el == bars[FindIndexById(bars, Head(running).barId)].el
          IN (/\ el # NoEl
              /\ Written(els[el].content)
              /\ els[el].barId # NoStamp
              /\ els[el].barId # Head(running).barId)
             => /\ els' = els
                /\ embeddedBars' = embeddedBars]_vars

(***************************************************************************)
(* C8: a deferred recomputation for identity L that fires when the marker  *)
(* block it was requested for no longer begins at line L produces no       *)
(* visual output.                                                          *)
(***************************************************************************)
C8_StaleDeferredIsNoOp ==
    [][(/\ RunsCallback("raf2")
        /\ Head(running).info
        /\ Head(running).filePath = active
        /\ BlockAt(docs[active], Head(running).barId) # Head(running).source)
       => \A e \in Elements :
             ~(Written(els'[e].content) /\ els'[e].content # els[e].content)]_vars

(***************************************************************************)
(* C9: once the view has switched from a file to another one, a render     *)
(* callback for the file now shown leaves no entries of the file shown     *)
(* before in the table.                                                    *)
(***************************************************************************)
C9_SwitchDiscardsOldPath ==
    [][(/\ IsRenderStep
        /\ RenderedTask.filePath = active
        /\ prevActive # NoPath
        /\ prevActive # active)
       => MapGet(embeddedBars', prevActive) = <<>>]_vars

(***************************************************************************)
(* C10: at least two animation frames begin between the render callback    *)
(* that binds a fresh element and the first recomputation that writes      *)
(* into it.                                                                *)
(***************************************************************************)
C10_TwoFramesBeforeFirstWrite ==
    [][\A e \in Elements :
          (/\ els[e].content.kind = "initial"
           /\ Written(els'[e].content)
           /\ hist[e].madeFor.info
           /\ hist[e].madeFor.path = active)
          => ~\E t \in Pending : t.el = e /\ t.kind \in {"raf1", "raf2"} /\ t.yields < 2]_vars

\* C10 as amended: the deferred recomputation that a render callback
\* requests runs when two animation frames have begun since the callback
C10_DeferredWaitsTwoFrames ==
    \A i \in 1..Len(running) : running[i].kind = "raf2" => running[i].yields = 2

\* no edit has happened, so only the deferred recomputation can have
\* written into the element
C10_Witness ==
    /\ docs = InitDocs
    /\ \E e \in Elements : Written(els[e].content)

(***************************************************************************)
(* C11: every recomputation performed inside a document-wide refresh uses  *)
(* a marker whose lineStart is a line at which a marker block begins in    *)
(* the text that the recomputation reads (the refresh re-indexes first).   *)
(***************************************************************************)
C11_RefreshUsesMarkerLines ==
    [][RunsCallback("refresh")
       => \A e \in Elements :
             hist'[e].wrote # hist[e].wrote
             => hist'[e].wrote.line \in FenceLines(docs'[hist'[e].wrote.textPath])]_vars

(***************************************************************************)
(* The section of a marker line L as the specification describes it: it    *)
(* starts at the nearest heading above L and ends before the first later   *)
(* heading that is not deeper; without a heading above L it is the whole   *)
(* document.                                                               *)
(***************************************************************************)
RefHeadings(lines) == {i \in 0..(Len(lines) - 1) : HeadingLevel(lines[i + 1]) > 0}
RefAbove(lines, L) == {i \in RefHeadings(lines) : i < L}
RefStart(lines, L) ==
    IF RefAbove(lines, L) = {} THEN 0
    ELSE CHOOSE i \in RefAbove(lines, L) : \A j \in RefAbove(lines, L) : j <= i
RefClosers(lines, L) ==
    {i \in RefHeadings(lines) :
        i > L /\ HeadingLevel(lines[i + 1]) <= HeadingLevel(lines[RefStart(lines, L) + 1])}
RefEnd(lines, L) ==
    IF RefAbove(lines, L) = {} \/ RefClosers(lines, L) = {} THEN Len(lines)
    ELSE CHOOSE i \in RefClosers(lines, L) : \A j \in RefClosers(lines, L) : i <= j

\* the element shows the result of a recomputation of the active note whose
\* line is the line of a marker block
ShowsMarkerOfActive(e) ==
    /\ Written(els[e].content)
    /\ hist[e].wrote.path = active
    /\ hist[e].wrote.textPath = active
    /\ hist[e].wrote.line \in FenceLines(docs[active])

(***************************************************************************)
(* C12: for every sample document and every marker line L of it, the       *)
(* section that countCheckboxesInSection resolves is the reference range   *)
(* [RefStart, RefEnd).                                                     *)
(***************************************************************************)
C12_SectionIsReferenceRange ==
    \A e \in Elements :
        ShowsMarkerOfActive(e)
        => /\ hist[e].wrote.start = RefStart(docs[active], hist[e].wrote.line)
           /\ hist[e].wrote.end = RefEnd(docs[active], hist[e].wrote.line)

\* headings of the levels 1, 2, 2, 3, 1: the section of the marker under
\* the third heading runs from that heading to the fifth one
C12_Witness ==
    /\ docs[active] = LevelsExample
    /\ \E e \in Elements :
          /\ ShowsMarkerOfActive(e)
          /\ hist[e].wrote.line = 4
          /\ hist[e].wrote.start = 3
          /\ hist[e].wrote.end = 10

(***************************************************************************)
(* C13: a marker whose body line reads like a checkbox shows the same      *)
(* checked and total as the same document with a plain label in its place. *)
(***************************************************************************)
C13_LabelBodyNotCounted ==
    \A e \in Elements :
        (/\ ShowsMarkerOfActive(e)
         /\ BlockAt(docs[active], hist[e].wrote.line) \in UncheckedLines \cup CheckedLines)
        => LET plain == [docs[active] EXCEPT ![hist[e].wrote.line + 2] = "A"]
               counts == CountCheckboxesInSection(plain, hist[e].wrote.line)
           IN /\ els[e].content.checked = counts.checked
              /\ els[e].content.total = counts.total

(***************************************************************************)
(* Reference counts of a section: the checked and the unchecked items on   *)
(* the lines start..end-1, and the percentage as the nearest integer to    *)
(* 100 * checked / total (a half rounds up).                               *)
(***************************************************************************)
RefChecked(lines, start, end) ==
    Cardinality({i \in start..(end - 1) : lines[i + 1] \in CheckedLines})
RefTotal(lines, start, end) ==
    Cardinality({i \in start..(end - 1) : lines[i + 1] \in CheckedLines \cup UncheckedLines})
IsRounded(p, checked, total) ==
    /\ 2 * (100 * checked - p * total) < total
    /\ 2 * (100 * checked - p * total) >= -total

\* the element shows a bar for the marker block at this line of the active note
ShowsBarAt(e, line) ==
    /\ ShowsMarkerOfActive(e)
    /\ hist[e].wrote.line = line
    /\ els[e].content.kind = "bar"

(***************************************************************************)
(* C14: end to end, whenever an element that the host made for a marker    *)
(* block of the note shows the result of a recomputation done since, then  *)
(* on the example document the element of the marker under "## A" reads    *)
(* 1/2 (50%) and the element of a marker under "## B" reads 1/1 (100%);    *)
(* on every sample document with a plain label the element reads           *)
(* checked/total (percentage%) of the reference section around its own     *)
(* marker block, the percentage being the nearest integer (a half rounds   *)
(* up).  Whether the layout handle knew the line of the block or not.      *)
(***************************************************************************)
\* the element was made for a marker block of the active note and has been
\* written by a recomputation since
ShowsRecomputed(e) ==
    /\ Supplied(e)
    /\ hist[e].madeFor.path = active
    /\ hist[e].madeFor.label \in BlockLabels(docs[active])
    /\ hist[e].wrote.path # NoPath
    /\ Written(els[e].content)

C14_ShowsOwnSection ==
    \A e \in Elements :
        ShowsRecomputed(e)
        => /\ (docs[active] \in {SpecExample, SpecExampleTwo} /\ hist[e].madeFor.label = "Label")
              => els[e].content.text = "1/2 (50%)"
           /\ (docs[active] = SpecExampleTwo /\ hist[e].madeFor.label = "A")
              => els[e].content.text = "1/1 (100%)"
           /\ hist[e].madeFor.label \notin UncheckedLines \cup CheckedLines
              => LET lines == docs[active]
                     L == BlockLineOf(lines, hist[e].madeFor.label)
                     c == RefChecked(lines, RefStart(lines, L), RefEnd(lines, L))
                     t == RefTotal(lines, RefStart(lines, L), RefEnd(lines, L))
                 IN t > 0
                    => \E p \in 0..100 :
                          /\ IsRounded(p, c, t)
                          /\ els[e].content.text =
                                ToString(c) \o "/" \o ToString(t) \o " (" \o ToString(p) \o "%)"

(***************************************************************************)
(* C15: for the example document of the README the embedded bar shows      *)
(* 2/3 (67%).                                                              *)
(***************************************************************************)
C15_ReadmeExampleShows ==
    \A e \in Elements :
        (docs[active] = ReadmeExample /\ ShowsMarkerOfActive(e) /\ hist[e].wrote.line = 2)
        => els[e].content.text = "2/3 (67%)"

(***************************************************************************)
(* C16: a recomputation that resolves a section without any checkbox       *)
(* writes the message 'No checkboxes in this section' and nothing else     *)
(* (no bar, no label, no percentage); a section with a checkbox shows a    *)
(* bar and never the message.                                              *)
(***************************************************************************)
C16_NoTasksMessage ==
    \A e \in Elements :
        ShowsMarkerOfActive(e)
        => LET lines == docs[active]
               L == hist[e].wrote.line
               t == RefTotal(lines, RefStart(lines, L), RefEnd(lines, L))
           IN IF t = 0
              THEN els[e].content =
                      [kind |-> "notasks", text |-> "No checkboxes in this section",
                       label |-> "", checked |-> 0, total |-> 0, percentage |-> 0]
              ELSE /\ els[e].content.kind = "bar"
                   /\ els[e].content.text # "No checkboxes in this section"

\* the section of the marker has no checkbox although the document has one
C16_Witness ==
    \E e \in Elements :
        /\ ShowsMarkerOfActive(e)
        /\ els[e].content.kind = "notasks"
        /\ RefTotal(docs[active], 0, Len(docs[active])) > 0

\* the step runs a re-index: a render callback or a document-wide refresh
IsReindexStep == IsRenderStep \/ RunsCallback("refresh")

(***************************************************************************)
(* C17: a re-index of a note whose line 0 starts with the marker fence     *)
(* replaces the text by one newline followed by the unchanged text; any    *)
(* other re-index leaves the text as it is; the text of the other notes    *)
(* is never touched; after a re-index line 0 is not the marker fence, so   *)
(* further passes prepend nothing; and no other step than a user edit      *)
(* changes a text.                                                         *)
(***************************************************************************)
C17_WorkaroundIdempotent ==
    [][/\ IsReindexStep
          => /\ docs'[active] = IF docs[active][1] = FenceOpen
                                 THEN <<"">> \o docs[active]
                                 ELSE docs[active]
             /\ \A p \in Paths \ {active} : docs'[p] = docs[p]
             /\ docs'[active][1] # FenceOpen
       /\ (docs' # docs /\ events' = events) => RunsCallback("refresh")]_vars

\* one edit has put a marker fence on line 0 of A.md; the refresh of the
\* edit has prepended the newline and the refresh that followed has left the
\* text as it was
C17_Witness ==
    /\ active = "A.md"
    /\ events = 1
    /\ Len(docs["A.md"]) >= 2
    /\ docs["A.md"][1] = Blank
    /\ docs["A.md"][2] = FenceOpen
    /\ MapHas(embeddedBars, "A.md")
    /\ rafQueue = <<>>
    /\ running = <<>>

NoHeadings(lines) == \A i \in 1..Len(lines) : HeadingLevel(lines[i]) = 0

(***************************************************************************)
(* C18: when the first line of a note without headings is the marker       *)
(* fence, the re-index records that marker at line 1 (the line it has      *)
(* after the newline was prepended); and a recomputation of the marker at  *)
(* line 1 of such a note shows the checked and total items of the whole    *)
(* text as it was without the prepended line.                              *)
(***************************************************************************)
C18_ShiftedMarkerWholeDocument ==
    [][/\ (/\ docs[active][1] = FenceOpen
            /\ NoHeadings(docs[active])
            /\ (RunsCallback("refresh") \/ (IsRenderStep /\ RenderedTask.filePath = active)))
          => \E i \in 1..Len(MapGet(embeddedBars', active)) :
                /\ MapGet(embeddedBars', active)[i].id = 1
                /\ MapGet(embeddedBars', active)[i].lineStart = 1
       /\ \A e \in Elements :
             (/\ hist'[e].wrote # hist[e].wrote
              /\ hist'[e].wrote.path = active
              /\ hist'[e].wrote.line = 1
              /\ Len(docs'[active]) >= 2
              /\ docs'[active][1] = Blank
              /\ docs'[active][2] = FenceOpen
              /\ NoHeadings(docs'[active]))
             => LET original == Tail(docs'[active])
                IN /\ els'[e].content.checked = RefChecked(original, 0, Len(original))
                   /\ els'[e].content.total = RefTotal(original, 0, Len(original))]_vars

\* the heading of A.md was deleted, the render callback of its marker block
\* prepended the newline, and the marker at line 1 has been recomputed
C18_Witness ==
    /\ active = "A.md"
    /\ events = 2
    /\ docs["A.md"] = <<Blank, FenceOpen, "A", FenceClose, Unchecked>>
    /\ \E e \in Elements : ShowsBarAt(e, 1) /\ els[e].content.text = "0/1 (0%)"

(***************************************************************************)
(* C19: a document-wide refresh passes over a marker whose element is      *)
(* detached and does not remove it: the entry that the re-index kept (an   *)
(* entry of another path, or one whose identity is still the line of a     *)
(* marker block) has the same identity, element and context after the      *)
(* refresh, and the element is left as it was; and a refresh recomputes    *)
(* every marker whose element is attached and carries its stamp, so also   *)
(* one that an earlier refresh passed over.                                *)
(***************************************************************************)
C19_DetachedSkippedNotRemoved ==
    [][RunsCallback("refresh")
       => /\ \A i \in 1..Len(embeddedBars) : \A j \in 1..Len(embeddedBars[i].bars) :
                LET p == embeddedBars[i].path
                    bar == embeddedBars[i].bars[j]
                    after == MapGet(embeddedBars', p)
                IN (/\ bar.el # NoEl
                    /\ ~els[bar.el].isConnected
                    /\ (p # active \/ bar.id \in FenceLines(docs'[active])))
                   => /\ \E k \in 1..Len(after) :
                            /\ after[k].id = bar.id
                            /\ after[k].el = bar.el
                            /\ after[k].ctx = bar.ctx
                      /\ els'[bar.el] = els[bar.el]
          /\ (\A e \in Elements : ~hist'[e].wrote.fault)
             => \A i \in 1..Len(embeddedBars') : \A j \in 1..Len(embeddedBars'[i].bars) :
                   LET bar == embeddedBars'[i].bars[j]
                   IN (/\ bar.el # NoEl
                       /\ els[bar.el].isConnected
                       /\ els[bar.el].barId = bar.id)
                      => /\ Written(els'[bar.el].content)
                         /\ hist'[bar.el].wrote.inRefresh
                         /\ hist'[bar.el].wrote.line = bar.lineStart]_vars

\* a refresh passed over the element while it was detached; it has been
\* attached since and a later refresh has recomputed it
C19_Witness ==
    \E e \in Elements :
        /\ hist[e].skipped
        /\ els[e].isConnected
        /\ hist[e].wrote.inRefresh
        /\ ShowsMarkerOfActive(e)

(***************************************************************************)
(* C20: no recomputation faults: the section resolver is never run with a  *)
(* marker line that lies behind the end of the text it reads.  Only the    *)
(* recomputations of a marker on the text of its own note are looked at,   *)
(* for elements whose render callback got the line from the host.          *)
(***************************************************************************)
C20_ResolverNeverFaults ==
    \A e \in Elements :
        (/\ hist[e].madeFor.info
         /\ hist[e].wrote.path = hist[e].madeFor.path
         /\ hist[e].wrote.textPath = hist[e].madeFor.path)
        => ~hist[e].wrote.fault

(***************************************************************************)
(* C21: after the user has checked or unchecked a checkbox in the section  *)
(* of a marker (the marker's line does not move), with the element of the  *)
(* marker attached and the note still the active one, once the frames have *)
(* run (no callback is pending) the element shows the checked/total of     *)
(* that section as it is now.                                              *)
(***************************************************************************)
\* the last edit toggled a checkbox in the section of the marker block the
\* attached element e was made for, in the active note, at this marker line
ToggledInSectionOf(e, L) ==
    /\ hist[e].toggled # -1
    /\ els[e].isConnected
    /\ hist[e].madeFor.path = active
    /\ hist[e].madeFor.label \in BlockLabels(docs[active])
    /\ L = BlockLineOf(docs[active], hist[e].madeFor.label)
    /\ RefStart(docs[active], L) <= hist[e].toggled
    /\ hist[e].toggled < RefEnd(docs[active], L)

C21_ToggleIsDisplayed ==
    \A e \in Elements : \A L \in 0..(Len(docs[active]) - 1) :
        (ToggledInSectionOf(e, L) /\ rafQueue = <<>> /\ running = <<>>)
        => LET lines == docs[active]
           IN /\ els[e].content.kind = "bar"
              /\ els[e].content.checked = RefChecked(lines, RefStart(lines, L), RefEnd(lines, L))
              /\ els[e].content.total = RefTotal(lines, RefStart(lines, L), RefEnd(lines, L))

(***************************************************************************)
(* C22: in every reachable state every entry of the marker table has       *)
(* lineStart equal to its identity, whether the text scan of a re-index    *)
(* made it or a render callback (from the line of the layout handle or     *)
(* from the fallback scan).                                                *)
(***************************************************************************)
C22_LineStartIsIdentity ==
    \A i \in 1..Len(embeddedBars) : \A j \in 1..Len(embeddedBars[i].bars) :
        embeddedBars[i].bars[j].lineStart = embeddedBars[i].bars[j].id

\* one table holds an entry that only the text scan has made (no element),
\* an entry bound by a render callback whose layout handle reported the line
\* and an entry bound by a render callback that used the fallback scan
C22_Witness ==
    \E i \in 1..Len(embeddedBars) :
        LET bars == embeddedBars[i].bars
        IN \E a, b, c \in 1..Len(bars) :
              /\ bars[a].el = NoEl
              /\ bars[b].el # NoEl /\ bars[b].ctx.infoLine = bars[b].id
              /\ bars[c].el # NoEl /\ bars[c].ctx.infoLine = -1
              /\ bars[a].lineStart = bars[a].id
              /\ bars[b].lineStart = bars[b].id
              /\ bars[c].lineStart = bars[c].id

(***************************************************************************)
(* C23: after a render callback that resolved the identity i, the table of *)
(* the callback's document has exactly one entry of identity i; it holds   *)
(* the element and the context of the callback and the trimmed body as     *)
(* label ('Progress' for a body that is empty once trimmed); the element   *)
(* is stamped with i.  The other entries are unchanged and the table has   *)
(* one entry more if i was not there, else none, both compared with the    *)
(* table as the re-index at the beginning of the callback leaves it: for   *)
(* the active note one entry per marker line of the text, bound as the     *)
(* entry of the same identity was before the callback and unbound when     *)
(* there was none; for another note the table as it was.                   *)
(***************************************************************************)
\* the label expected for a body text
TrimmedOrDefault(source) ==
    CASE source = " B " -> "B"
      [] source \in {"", "  "} -> "Progress"
      [] OTHER -> source

\* the entries of other identities than i, as [id, el, ctx], in table order
OthersOf(bars, i) ==
    LET others == SelectSeq(bars, LAMBDA b : b.id # i)
    IN [k \in 1..Len(others) |->
          [id |-> others[k].id, el |-> others[k].el, ctx |-> others[k].ctx]]

\* the entry of identity i is the only one, and it is the callback's
UpsertedEntry(after, task) ==
    LET mine == {k \in 1..Len(after) : after[k].id = task.barId}
    IN /\ Cardinality(mine) = 1
       /\ \A k \in mine :
             /\ after[k].el = task.el
             /\ after[k].ctx = [sourcePath |-> task.filePath,
                                infoLine |-> IF task.info THEN task.barId ELSE -1]
             /\ after[k].label = TrimmedOrDefault(task.source)
             /\ after[k].lineStart = task.barId

\* C23 as stated: the other entries and the growth of the table are compared
\* with the table as it was before the callback
C23_OthersAsBeforeCallback ==
    [][IsRenderStep =>
        LET task == RenderedTask
            i == task.barId
            p == task.filePath
            before == MapGet(embeddedBars, p)
            after == MapGet(embeddedBars', p)
        IN /\ MapHas(embeddedBars', p)
           /\ UpsertedEntry(after, task)
           /\ els'[task.el].barId = i
           /\ OthersOf(after, i) = OthersOf(before, i)
           /\ Len(after) = Len(before) + (IF i \in IdsOf(before) THEN 0 ELSE 1)]_vars

C23_RenderUpserts ==
    [][IsRenderStep =>
        LET task == RenderedTask
            i == task.barId
            p == task.filePath
            before == MapGet(embeddedBars, p)
            after == MapGet(embeddedBars', p)
            marks == FenceLines(docs'[active])
        IN /\ MapHas(embeddedBars', p)
           /\ UpsertedEntry(after, task)
           /\ els'[task.el].barId = i
           /\ IF p # active
              THEN /\ OthersOf(after, i) = OthersOf(before, i)
                   /\ Len(after) = Len(before) + (IF i \in IdsOf(before) THEN 0 ELSE 1)
              ELSE /\ IdsOf(after) = marks \cup {i}
                   /\ \A k \in 1..Len(after) :
                         after[k].id # i
                         => IF after[k].id \in IdsOf(before)
                            THEN \E b \in 1..Len(before) :
                                    /\ before[b].id = after[k].id
                                    /\ before[b].el = after[k].el
                                    /\ before[b].ctx = after[k].ctx
                            ELSE after[k].el = NoEl /\ after[k].ctx = NoCtx
                   /\ Len(after) = Cardinality(marks) + (IF i \in marks THEN 0 ELSE 1)]_vars

\* two render callbacks have just run for one table: one found its identity
\* in the table (the marker line reported by the layout handle) and gave it
\* the label 'Progress', the body of its block being nothing but blanks;
\* one added the identity 0 of the fallback scan
C23_Witness ==
    \E e1, e2 \in Elements : \E i \in 1..Len(embeddedBars) :
        LET bars == embeddedBars[i].bars
        IN /\ e1 # e2
           /\ hist[e1].madeFor.info /\ ~hist[e2].madeFor.info
           /\ hist[e1].madeFor.path = embeddedBars[i].path
           /\ hist[e2].madeFor.path = embeddedBars[i].path
           /\ hist[e1].madeFor.label = "  "
           /\ \E a, b \in 1..Len(bars) :
                 /\ bars[a].el = e1 /\ bars[a].id = els[e1].barId /\ bars[a].id > 0
                 /\ bars[b].el = e2 /\ bars[b].id = els[e2].barId /\ bars[b].id = 0
                 /\ bars[a].label = "Progress"
           /\ \E t1, t2 \in Pending : t1.el = e1 /\ t2.el = e2

(***************************************************************************)
(* C24: after a render callback for an element that is attached and stays  *)
(* so, with or without a line from the layout handle, if the host does     *)
(* nothing more (no edit, no render callback) and the frames run, the      *)
(* element eventually shows the checked/total of the section around its    *)
(* own marker block, or the no-checkboxes message for a section without    *)
(* checkbox.  Markers with a plain label only.                             *)
(***************************************************************************)
\* the attached element e was made for a marker block of the active note
RenderedAttached(e) ==
    /\ Supplied(e)
    /\ els[e].isConnected
    /\ hist[e].madeFor.path = active
    /\ hist[e].madeFor.label \in BlockLabels(docs[active])
    /\ hist[e].madeFor.label \notin UncheckedLines \cup CheckedLines

\* e shows the counts of the section around the marker block it was made for
ShowsOwnSection(e) ==
    LET lines == docs[active]
        L == BlockLineOf(lines, hist[e].madeFor.label)
        c == RefChecked(lines, RefStart(lines, L), RefEnd(lines, L))
        t == RefTotal(lines, RefStart(lines, L), RefEnd(lines, L))
    IN IF t = 0 THEN els[e].content.kind = "notasks"
       ELSE /\ els[e].content.kind = "bar"
            /\ els[e].content.checked = c
            /\ els[e].content.total = t

\* the host acts finitely often; once it has stopped and the frames have
\* run, every such element shows its own section, and this stays so
C24_EventuallyShowsOwnSection ==
    <>[](\A e \in Elements : RenderedAttached(e) => ShowsOwnSection(e))

(***************************************************************************)
(* C25: for every text, whatever its line terminators ("\n", "\r\n" or a   *)
(* lone "\r"), every marker block gets the same line number from the       *)
(* re-index, from the fallback scan of the render callback and in the      *)
(* lines the section resolver splits.                                      *)
(***************************************************************************)
C25_SameLineEverywhere ==
    lineNumbers.done = {"reindex", "fallback", "resolver"}
    => /\ lineNumbers.fallback = lineNumbers.reindex
       /\ lineNumbers.resolver = lineNumbers.reindex

(***************************************************************************)
(* C26: a render callback never discards the table entries of the note     *)
(* shown in the active view, which it has just re-indexed: after the       *)
(* callback the active note has its table, and a path that loses its table *)
(* in the callback is another path than the active one.                    *)
(***************************************************************************)
C26_RenderKeepsActiveTable ==
    [][IsRenderStep =>
        /\ MapHas(embeddedBars', active)
        /\ \A p \in Paths :
              (MapHas(embeddedBars, p) /\ ~MapHas(embeddedBars', p)) => p # active]_vars

(***************************************************************************)
(* C27: every recomputation of a marker stored under the path P reads the  *)
(* text of the note P; a document-wide refresh never writes into an        *)
(* attached element of a marker stored under another path counts that it   *)
(* has taken from the text of the active note.                             *)
(***************************************************************************)
C27_CountsFromOwnDocument ==
    \A e \in Elements :
        /\ hist[e].wrote.path # NoPath => hist[e].wrote.textPath = hist[e].wrote.path
        /\ (/\ hist[e].wrote.inRefresh
            /\ els[e].isConnected
            /\ Written(els[e].content))
           => hist[e].wrote.path = active

(***************************************************************************)
(* C28: as long as the host has handed every element to one render         *)
(* callback only, every element bound in the table of a path is held by    *)
(* one entry of that table and is stamped with the identity of that entry  *)
(* (so neither the recomputation nor the refresh finds a stamp of another  *)
(* identity).                                                              *)
(***************************************************************************)
C28_BoundElementsMatchStamp ==
    (\A e \in Elements : ~hist[e].reused)
    => \A i \in 1..Len(embeddedBars) :
          LET bars == embeddedBars[i].bars
          IN \A j \in 1..Len(bars) :
                bars[j].el # NoEl
                => /\ \A k \in 1..Len(bars) : bars[k].el = bars[j].el => k = j
                   /\ els[bars[j].el].barId = bars[j].id

\* two elements, each handed out once, are bound in one table, and a refresh
\* that re-indexed the table has passed over both
C28_Witness ==
    /\ \A e \in Elements : ~hist[e].reused
    /\ \E i \in 1..Len(embeddedBars) :
          LET bars == embeddedBars[i].bars
          IN \E j, k \in 1..Len(bars) :
                /\ j # k
                /\ bars[j].el # NoEl /\ bars[k].el # NoEl /\ bars[j].el # bars[k].el
                /\ hist[bars[j].el].skipped /\ hist[bars[k].el].skipped
                /\ els[bars[j].el].barId = bars[j].id
                /\ els[bars[k].el].barId = bars[k].id

(***************************************************************************)
(* C29: without user edits the cycle re-index changes the text -> edit     *)
(* notification -> refresh -> re-index comes to an end: a step changes the *)
(* text only by the workaround (the text began with the opening fence and  *)
(* does not afterwards, so there is one such step at most), and from some  *)
(* point on no refresh is pending any more.                                *)
(***************************************************************************)
NoRefreshPending == \A t \in Pending : t.kind # "refresh"

C29_FeedbackCycleEnds ==
    /\ [][docs' # docs
          => /\ NeedsLeadingNewline(docs[active])
             /\ ~NeedsLeadingNewline(docs'[active])
             /\ \A p \in Paths \ {active} : docs'[p] = docs[p]]_vars
    /\ <>[]NoRefreshPending

\* the re-index has put the empty line before the opening fence, the refresh
\* it caused has run and recomputed an attached element, and no refresh is
\* pending
C29_Witness ==
    /\ Len(docs[active]) >= 2
    /\ docs[active][1] = Blank
    /\ docs[active][2] = FenceOpen
    /\ NoRefreshPending
    /\ \E e \in Elements : hist[e].wrote.inRefresh

(***************************************************************************)
(* C30: for all counts 0 <= checked <= total, 1 <= total <= MaxTotal, the  *)
(* percentage of the bar is a whole number from 0 to 100; it is 100 only   *)
(* when every checkbox is checked and 0 only when none is.                 *)
(***************************************************************************)
C30_PercentageEnds ==
    \A e \in Elements :
        els[e].content.kind = "bar"
        => /\ els[e].content.percentage \in 0..100
           /\ els[e].content.percentage = 100 => els[e].content.checked = els[e].content.total
           /\ els[e].content.percentage = 0 => els[e].content.checked = 0

====
